---- MODULE Spec2Model ----
(***************************************************************************)
(* A model of m3ucopy.py: extract_mp3_files (the playlist reader with its  *)
(* encoding fallback), copy_mp3_files (the numbered copy loop) and main.    *)
(*                                                                         *)
(* Text is modelled by TLA+ strings, one character per code point.  Two     *)
(* characters of the playlist file stand for bytes above 0x7F:              *)
(*   "^"  the byte 0xE9: no valid UTF-8 or ASCII on its own, a letter in    *)
(*        Windows-1252 / cp1252 / latin1 / iso-8859-1;                      *)
(*   "~"  the byte 0x81: no valid UTF-8 or ASCII, undefined in Windows-1252 *)
(*        and cp1252, a control character in latin1 / iso-8859-1.           *)
(***************************************************************************)
EXTENDS Integers, Sequences, FiniteSets, TLC

VARIABLES
    argc,            \* len(sys.argv)
    playlist,        \* the lines of the file at m3u_path, as stored (undecoded)
    openable,        \* whether open(m3u_path) succeeds
    dest_dir,        \* sys.argv[2]
    blocked,         \* whether dest_dir can not be created
    dirs,            \* the directories that exist
    fs,              \* the files that exist: path -> content
    pc,              \* the position of main
    enc,             \* index into encodings of the current attempt
    pos,             \* lines of the file consumed by the current attempt
    tracks,          \* extract_mp3_files: tracks
    current_extinf,  \* extract_mp3_files: current_extinf
    index,           \* copy_mp3_files: index of enumerate(tracks, 1)
    failed_files,    \* copy_mp3_files: failed_files
    outcomes,        \* what happened to each track visited, in order of visit
    report,          \* the failure report main printed, or <<>> when none was
    exit,            \* the exit status of the process, -1 while it runs
    run,             \* 1 in the first invocation, 2 in the repeated one
    fs_start,        \* fs when the current invocation started
    first            \* failed_files and fs at the end of the first invocation

vars == <<argc, playlist, openable, dest_dir, blocked, dirs, fs, pc, enc, pos,
          tracks, current_extinf, index, failed_files, outcomes, report, exit,
          run, fs_start, first>>

-----------------------------------------------------------------------------
(* Strings *)

Char(s, i) == SubSeq(s, i, i)

startswith(s, p) == Len(s) >= Len(p) /\ SubSeq(s, 1, Len(p)) = p

endswith(s, p) == Len(s) >= Len(p) /\ SubSeq(s, Len(s) - Len(p) + 1, Len(s)) = p

Contains(s, c) == \E i \in 1..Len(s) : Char(s, i) = c

\* str.rfind for a single character, 1-based; 0 when absent.
rfind(s, c) ==
    LET hits == {i \in 1..Len(s) : Char(s, i) = c}
    IN  IF hits = {} THEN 0 ELSE CHOOSE i \in hits : \A j \in hits : j <= i

Whitespace == {" "}

\* str.strip(): leading and trailing whitespace removed.
strip(s) ==
    LET keep == {i \in 1..Len(s) : Char(s, i) \notin Whitespace}
    IN  IF keep = {} THEN ""
        ELSE SubSeq(s, CHOOSE i \in keep : \A j \in keep : i <= j,
                       CHOOSE i \in keep : \A j \in keep : j <= i)

Digits == "0123456789"

IsDigit(c) == Contains(Digits, c)

HexDigits == "0123456789ABCDEF"

HexLower == "0123456789abcdef"

IsHex(c) == Contains(HexDigits, c) \/ Contains(HexLower, c)

HexVal(c) ==
    IF Contains(HexDigits, c)
    THEN (CHOOSE i \in 1..Len(HexDigits) : Char(HexDigits, i) = c) - 1
    ELSE (CHOOSE i \in 1..Len(HexLower) : Char(HexLower, i) = c) - 1

\* The printable ASCII characters 0x20 to 0x5F, and 0x61 to 0x7E, in order.
AsciiLow == " !\"#$%&'()*+,-./0123456789:;<=>?@ABCDEFGHIJKLMNOPQRSTUVWXYZ[\\]^_"

AsciiHigh == "abcdefghijklmnopqrstuvwxyz{|}~"

\* The character of one unquoted byte.  A byte outside printable ASCII is
\* shown as "?" (unquote replaces a lone byte above 0x7F by U+FFFD), and so
\* is 0x60, which a TLA+ string can not hold.
Chr(n) ==
    IF n >= 32 /\ n <= 95 THEN Char(AsciiLow, n - 31)
    ELSE IF n >= 97 /\ n <= 126 THEN Char(AsciiHigh, n - 96)
    ELSE "?"

\* urllib.parse.unquote: %XX with two hex digits becomes the byte XX, every
\* other character, "+" included, passes through.
RECURSIVE unquote(_)
unquote(s) ==
    IF s = "" THEN ""
    ELSE IF Char(s, 1) = "%" /\ Len(s) >= 3 /\ IsHex(Char(s, 2)) /\ IsHex(Char(s, 3))
         THEN Chr(16 * HexVal(Char(s, 2)) + HexVal(Char(s, 3)))
              \o unquote(SubSeq(s, 4, Len(s)))
         ELSE Char(s, 1) \o unquote(SubSeq(s, 2, Len(s)))

\* os.path.splitext (posixpath): the extension starts at the last dot of the
\* last path component, unless only dots precede it in that component.
splitext(p) ==
    LET sepIndex == rfind(p, "/")
        dotIndex == rfind(p, ".")
    IN  IF dotIndex > sepIndex
           /\ \E k \in (sepIndex + 1)..(dotIndex - 1) : Char(p, k) # "."
        THEN <<SubSeq(p, 1, dotIndex - 1), SubSeq(p, dotIndex, Len(p))>>
        ELSE <<p, "">>

\* os.path.join (posixpath) of two components.
join(a, b) ==
    IF startswith(b, "/") THEN b
    ELSE IF a = "" \/ endswith(a, "/") THEN a \o b
    ELSE a \o "/" \o b

\* os.path.dirname (posixpath).
dirname(p) ==
    LET i == rfind(p, "/")
    IN  IF i = 0 THEN "" ELSE IF i = 1 THEN "/" ELSE SubSeq(p, 1, i - 1)

RECURSIVE str(_)
\* str(n) for n >= 0.
str(n) == IF n < 10 THEN Char(Digits, n + 1)
          ELSE str(n \div 10) \o Char(Digits, (n % 10) + 1)

\* The prefix cut to its last three digits.
Format03dTruncated(n) ==
    LET d == str(n % 1000)
    IN  SubSeq("000", 1, 3 - Len(d)) \o d

\* f"{index:03d}": at least three digits, padded with zeros on the left.
Format03d(n) ==
    LET d == str(n)
    IN  IF Len(d) >= 3 THEN d ELSE SubSeq("000", 1, 3 - Len(d)) \o d

-----------------------------------------------------------------------------
(* The playlist reader *)

encodings == <<"utf-8", "Windows-1252", "latin1", "cp1252", "iso-8859-1", "ascii">>

\* Whether the codec raises UnicodeDecodeError on the stored line.
Undecodable(encoding, line) ==
    IF encoding \in {"utf-8", "ascii"}
    THEN Contains(line, "^") \/ Contains(line, "~")
    ELSE IF encoding \in {"Windows-1252", "cp1252"}
    THEN Contains(line, "~")
    ELSE FALSE

\* The number of lines of the file before the first one the codec can not
\* decode; Len(lines) when it decodes them all.
DecodablePrefix(encoding, lines) ==
    LET bad == {i \in 1..Len(lines) : Undecodable(encoding, lines[i])}
    IN  IF bad = {} THEN Len(lines)
        ELSE (CHOOSE i \in bad : \A j \in bad : i <= j) - 1

\* current_extinf = None
None == [isNone |-> TRUE, title |-> "", hasDuration |-> FALSE, duration |-> ""]

\* re.match(r"#EXTINF:(\d+),(.+)", line) on a line that starts with #EXTINF:
\* the longest run of digits after the prefix, then a comma, then at least
\* one more character.  <<>> when there is no match, else <<duration, title>>.
MatchExtinf(line) ==
    LET rest == SubSeq(line, 9, Len(line))
        nonDigit == {i \in 1..Len(rest) : ~IsDigit(Char(rest, i))}
        n == IF nonDigit = {} THEN Len(rest)
             ELSE (CHOOSE i \in nonDigit : \A j \in nonDigit : i <= j) - 1
    IN  IF n >= 1 /\ Len(rest) >= n + 2 /\ Char(rest, n + 1) = ","
        THEN <<SubSeq(rest, 1, n), SubSeq(rest, n + 2, Len(rest))>>
        ELSE <<>>

\* The body of "for line in file" for one line: the new (tracks, current_extinf).
ProcessLine(trks, extinf, rawLine) ==
    LET line == strip(rawLine)
    IN  IF line = "" \/ line = "#EXTM3U"
        THEN [tracks |-> trks, current_extinf |-> extinf]
        ELSE IF startswith(line, "#EXTINF:")
        THEN LET match == MatchExtinf(line)
             IN  [tracks |-> trks,
                  current_extinf |->
                      IF match # <<>>
                      THEN [isNone |-> FALSE, title |-> match[2],
                            hasDuration |-> TRUE, duration |-> match[1]]
                      ELSE [isNone |-> FALSE, title |-> SubSeq(line, 9, Len(line)),
                            hasDuration |-> FALSE, duration |-> ""]]
        ELSE IF endswith(line, ".mp3") \/ endswith(line, ".wav")
        THEN [tracks |-> Append(trks, [encoded_filename |-> line,
                                       decoded_filename |-> unquote(line),
                                       info |-> extinf]),
              current_extinf |-> None]
        ELSE [tracks |-> trks, current_extinf |-> extinf]

-----------------------------------------------------------------------------
(* The track copier *)

\* The name built of the raw reference where the decoded one is meant.
NewFilenameRaw(i, track) ==
    LET track_title == IF ~track.info.isNone THEN track.info.title ELSE ""
    IN  IF track_title # ""
        THEN Format03d(i) \o " - " \o track_title \o splitext(track.encoded_filename)[2]
        ELSE Format03d(i) \o " - " \o track.encoded_filename

\* copy_mp3_files: new_filename of the track at 1-based position i.
NewFilename(i, track) ==
    LET track_info == track.info
        track_title == IF ~track_info.isNone THEN track_info.title ELSE ""
        prefix == Format03d(i)
    IN  IF track_title # ""
        THEN prefix \o " - " \o track_title \o splitext(track.decoded_filename)[2]
        ELSE prefix \o " - " \o track.decoded_filename

SourcePath(source_dir, track) == join(source_dir, track.encoded_filename)

DestPath(dst, i, track) == join(dst, NewFilename(i, track))

\* os.path.exists
exists(files, directories, path) == path \in DOMAIN files \/ path \in directories

\* shutil.copy2(src, dst) for a source that exists: "ok", or the exception
\* it raises.
Copy2Result(files, directories, src, dst) ==
    IF src = dst THEN "SameFileError"
    ELSE IF src \in directories THEN "IsADirectoryError"
    ELSE IF dirname(dst) \notin directories THEN "FileNotFoundError"
    ELSE "ok"

-----------------------------------------------------------------------------
(* The inputs *)

\* The longest playlist, in lines.
MaxLines == 3

\* The lines a playlist is made of.
PlaylistLines ==
    { "#EXTINF:180,My Song",
      "#EXTINF:AC/DC.wav",
      "#EXTINF:",
      "track%201.mp3",
      "note.txt",
      "caf^.wav",
      " 002 - My Song.mp3" }

Playlists == UNION {[1..n -> PlaylistLines] : n \in 0..MaxLines}

\* main: source_dir, the directory of the playlist file.
SourceDir == "/music"

OtherDir == "/out"

RECURSIVE ParseLines(_, _, _, _)
\* The loop "for line in file" over lines k.. of a file that decodes, from
\* the given tracks and current_extinf: the tracks it ends with.
ParseLines(trks, extinf, lines, k) ==
    IF k > Len(lines) THEN trks
    ELSE LET st == ProcessLine(trks, extinf, lines[k])
         IN  ParseLines(st.tracks, st.current_extinf, lines, k + 1)

\* The source paths the playlist refers to.
Referenced(lines) ==
    LET trks == ParseLines(<<>>, None, lines, 1)
    IN  {SourcePath(SourceDir, trks[i]) : i \in 1..Len(trks)}

Content(path) == "content of " \o path

NoFirst == [failed_files |-> <<>>, fs |-> <<>>, dirs |-> {}]

NoReport == [printed |-> FALSE, processed |-> 0, failures |-> <<>>]

InitLocals ==
    /\ pc = "main"
    /\ enc = 1
    /\ pos = 0
    /\ tracks = <<>>
    /\ current_extinf = None
    /\ index = 1
    /\ failed_files = <<>>
    /\ outcomes = <<>>
    /\ report = NoReport
    /\ exit = -1
    /\ run = 1
    /\ first = NoFirst

\* A wrong number of arguments.
InitUsage ==
    /\ argc \in {1, 2, 4}
    /\ playlist = <<>>
    /\ openable = TRUE
    /\ dest_dir = OtherDir
    /\ blocked = FALSE
    /\ dirs = {SourceDir}
    /\ fs = <<>>

\* A playlist that can not be opened (missing, or no permission to read it).
InitUnopenable ==
    /\ argc = 3
    /\ playlist = <<>>
    /\ openable = FALSE
    /\ dest_dir \in {SourceDir, OtherDir}
    /\ blocked = FALSE
    /\ dirs = {SourceDir}
    /\ fs = <<>>

\* A playlist, any subset of the files it refers to, and a destination: the
\* source directory itself, or another directory, to be created.
InitRun ==
    /\ argc = 3
    /\ playlist \in Playlists
    /\ openable = TRUE
    /\ \E there \in SUBSET Referenced(playlist) :
           fs = [path \in there |-> Content(path)]
    /\ dest_dir \in {SourceDir, OtherDir}
    /\ blocked = FALSE
    /\ dirs = {SourceDir}

\* A playlist, the files it refers to, and a destination that can not be
\* created.
InitBlocked ==
    /\ argc = 3
    /\ playlist \in Playlists
    /\ openable = TRUE
    /\ fs = [path \in Referenced(playlist) |-> Content(path)]
    /\ dest_dir = OtherDir
    /\ blocked = TRUE
    /\ dirs = {SourceDir}

Init ==
    /\ InitUsage \/ InitUnopenable \/ InitRun \/ InitBlocked
    /\ fs_start = fs
    /\ InitLocals

-----------------------------------------------------------------------------
(* main *)

\* main: the argument check, then the call of extract_mp3_files.
Main ==
    /\ pc = "main"
    /\ IF argc # 3
       THEN /\ pc' = "usage"
            /\ exit' = 1
       ELSE /\ pc' = "open"
            /\ exit' = exit
    /\ UNCHANGED <<argc, playlist, openable, dest_dir, blocked, dirs, fs, enc, pos,
                   tracks, current_extinf, index, failed_files, outcomes, report,
                   run, fs_start, first>>

\* extract_mp3_files: open(m3u_path, 'r', encoding=encoding) for the next
\* encoding.  An OSError is caught by "except Exception" and the loop goes on.
Open ==
    /\ pc = "open"
    /\ enc <= Len(encodings)
    /\ IF openable
       THEN /\ pc' = "read"
            /\ pos' = 0
            /\ enc' = enc
       ELSE /\ pc' = "open"
            /\ pos' = pos
            /\ enc' = enc + 1
    /\ UNCHANGED <<argc, playlist, openable, dest_dir, blocked, dirs, fs,
                   tracks, current_extinf, index, failed_files, outcomes, report,
                   exit, run, fs_start, first>>

\* extract_mp3_files: one iteration of "for line in file".  The lines before
\* the first undecodable one can be delivered.
ReadLine ==
    /\ pc = "read"
    /\ pos < DecodablePrefix(encodings[enc], playlist)
    /\ LET st == ProcessLine(tracks, current_extinf, playlist[pos + 1])
       IN  /\ tracks' = st.tracks
           /\ current_extinf' = st.current_extinf
    /\ pos' = pos + 1
    /\ UNCHANGED <<argc, playlist, openable, dest_dir, blocked, dirs, fs, pc, enc,
                   index, failed_files, outcomes, report, exit, run, fs_start,
                   first>>

\* extract_mp3_files: UnicodeDecodeError, caught, and the next encoding is
\* tried.  The file is decoded a block at a time, so the error comes when the
\* block that holds the undecodable byte is read: after any number of the
\* lines before it have been processed (a playlist of a few lines stands for
\* one of many blocks).  tracks and current_extinf are not reset.
DecodeError ==
    /\ pc = "read"
    /\ DecodablePrefix(encodings[enc], playlist) < Len(playlist)
    /\ pc' = "open"
    /\ enc' = enc + 1
    /\ UNCHANGED <<argc, playlist, openable, dest_dir, blocked, dirs, fs, pos,
                   tracks, current_extinf, index, failed_files, outcomes, report,
                   exit, run, fs_start, first>>

\* extract_mp3_files: the end of the file, "return tracks".
Return ==
    /\ pc = "read"
    /\ DecodablePrefix(encodings[enc], playlist) = Len(playlist)
    /\ pos = Len(playlist)
    /\ pc' = "makedirs"
    /\ UNCHANGED <<argc, playlist, openable, dest_dir, blocked, dirs, fs, enc, pos,
                   tracks, current_extinf, index, failed_files, outcomes, report,
                   exit, run, fs_start, first>>

\* extract_mp3_files: no encoding worked; the exception ends main.
RaiseUnreadable ==
    /\ pc = "open"
    /\ enc > Len(encodings)
    /\ pc' = "unreadable"
    /\ exit' = 1
    /\ UNCHANGED <<argc, playlist, openable, dest_dir, blocked, dirs, fs, enc, pos,
                   tracks, current_extinf, index, failed_files, outcomes, report,
                   run, fs_start, first>>

\* makedirs whose failure is swallowed: the copy loop is entered all the same.
MakeDirsSwallowed ==
    /\ pc = "makedirs"
    /\ pc' = "copy"
    /\ dirs' = IF blocked THEN dirs ELSE dirs \cup {dest_dir}
    /\ index' = 1
    /\ failed_files' = <<>>
    /\ UNCHANGED <<argc, playlist, openable, dest_dir, blocked, fs, enc, pos, exit,
                   tracks, current_extinf, outcomes, report, run, fs_start, first>>

\* copy_mp3_files: os.makedirs(dest_dir, exist_ok=True); its exception ends
\* main.
MakeDirs ==
    /\ pc = "makedirs"
    /\ IF dest_dir \in dirs
       THEN /\ pc' = "copy"
            /\ dirs' = dirs
            /\ exit' = exit
       ELSE IF blocked
       THEN /\ pc' = "makedirs failed"
            /\ dirs' = dirs
            /\ exit' = 1
       ELSE /\ pc' = "copy"
            /\ dirs' = dirs \cup {dest_dir}
            /\ exit' = exit
    /\ index' = 1
    /\ failed_files' = <<>>
    /\ UNCHANGED <<argc, playlist, openable, dest_dir, blocked, fs, enc, pos,
                   tracks, current_extinf, outcomes, report, run, fs_start, first>>

\* copy_mp3_files: what the try block does with the track at position i:
\* "ok", "File not found", or the text of the exception.
Outcome(files, directories, dst, i, track) ==
    IF exists(files, directories, SourcePath(SourceDir, track))
    THEN Copy2Result(files, directories, SourcePath(SourceDir, track),
                     DestPath(dst, i, track))
    ELSE "File not found"

\* A failure list that leaves out the tracks not found.
FailedAfterErrorsOnly(failed, track, outcome) ==
    IF outcome \in {"ok", "File not found"} THEN failed
    ELSE Append(failed, <<track.encoded_filename, outcome>>)

\* copy_mp3_files: failed_files after the track.
FailedAfter(failed, track, outcome) ==
    IF outcome = "ok" THEN failed
    ELSE Append(failed, <<track.encoded_filename, outcome>>)

\* The files after shutil.copy2(src, dst) succeeded.
FilesAfterCopy(files, src, dst) ==
    [path \in DOMAIN files \cup {dst} |-> IF path = dst THEN files[src] ELSE files[path]]

\* A loop that a failure ends.
LoopAfterBreak(i, outcome) == IF outcome = "ok" THEN i + 1 ELSE i + 1000

\* copy_mp3_files: where the loop goes after the track at position i.
LoopAfter(i, outcome) == i + 1

\* copy_mp3_files: one iteration of "for index, track in enumerate(tracks, 1)".
CopyTrack ==
    /\ pc = "copy"
    /\ index <= Len(tracks)
    /\ LET track == tracks[index]
           outcome == Outcome(fs, dirs, dest_dir, index, track)
       IN  /\ fs' = IF outcome = "ok"
                    THEN FilesAfterCopy(fs, SourcePath(SourceDir, track),
                                        DestPath(dest_dir, index, track))
                    ELSE fs
           /\ failed_files' = FailedAfter(failed_files, track, outcome)
           /\ outcomes' = Append(outcomes,
                                 [index |-> index, outcome |-> outcome,
                                  source |-> SourcePath(SourceDir, track),
                                  dest |-> DestPath(dest_dir, index, track)])
           /\ index' = LoopAfter(index, outcome)
    /\ UNCHANGED <<argc, playlist, openable, dest_dir, blocked, dirs, pc, enc, pos,
                   tracks, current_extinf, report, exit, run, fs_start, first>>

\* main: copy_mp3_files returned; the summary and the failure report are
\* printed and main returns.
Finish ==
    /\ pc = "copy"
    /\ index > Len(tracks)
    /\ pc' = "done"
    /\ report' = [printed |-> TRUE, processed |-> Len(tracks), failures |-> failed_files]
    /\ exit' = 0
    /\ UNCHANGED <<argc, playlist, openable, dest_dir, blocked, dirs, fs, enc, pos,
                   tracks, current_extinf, index, failed_files, outcomes, run,
                   fs_start, first>>

\* The tool is run a second time with the same arguments.
Rerun ==
    /\ pc = "done"
    /\ run = 1
    /\ run' = 2
    /\ first' = [failed_files |-> failed_files, fs |-> fs, dirs |-> dirs]
    /\ fs_start' = fs
    /\ pc' = "main"
    /\ enc' = 1
    /\ pos' = 0
    /\ tracks' = <<>>
    /\ current_extinf' = None
    /\ index' = 1
    /\ failed_files' = <<>>
    /\ outcomes' = <<>>
    /\ report' = NoReport
    /\ exit' = -1
    /\ UNCHANGED <<argc, playlist, openable, dest_dir, blocked, dirs, fs>>

Next ==
    \/ Main
    \/ Open
    \/ ReadLine
    \/ DecodeError
    \/ Return
    \/ RaiseUnreadable
    \/ MakeDirs
    \/ CopyTrack
    \/ Finish
    \/ Rerun

Spec == Init /\ [][Next]_vars

-----------------------------------------------------------------------------
(* The reader's claims *)

\* The tracks of one pass over the whole decoded file, from an empty list and
\* no pending metadata.
CleanParse == ParseLines(<<>>, None, playlist, 1)

\* The class of a trimmed line, by the precedence of the specification.
Classify(rawLine) ==
    LET line == strip(rawLine)
    IN  IF line = "" \/ line = "#EXTM3U" THEN "skip"
        ELSE IF startswith(line, "#EXTINF:") THEN "metadata"
        ELSE IF endswith(line, ".mp3") \/ endswith(line, ".wav") THEN "track"
        ELSE "other"

\* The positions of the track lines of the file, the set and in file order.
TrackLines == {k \in 1..Len(playlist) : Classify(playlist[k]) = "track"}

RECURSIVE TrackLineNames(_)
TrackLineNames(k) ==
    IF k = 0 THEN <<>>
    ELSE IF k \in TrackLines
    THEN Append(TrackLineNames(k - 1), strip(playlist[k]))
    ELSE TrackLineNames(k - 1)

\* The metadata lines between the track line before line k and line k.
MetadataSince(k) ==
    {m \in 1..(k - 1) : /\ Classify(playlist[m]) = "metadata"
                        /\ \A t \in TrackLines : ~(m < t /\ t < k)}

\* What the metadata attached to the track line k is to be: that of the last
\* metadata line since the track line before it, none when there is none.
PendingFor(k) ==
    IF MetadataSince(k) = {} THEN None
    ELSE ProcessLine(<<>>, None,
                     playlist[CHOOSE m \in MetadataSince(k) :
                                  \A n \in MetadataSince(k) : n <= m]).current_extinf

\* C1: when an earlier encoding failed with a decode error, the track list
\* returned under the later encoding holds nothing of the failed attempt: it
\* is the list a single pass over the file gives.  (Only lines processed in
\* the failed attempt can make the two differ.)
C1_NoPartialOutput ==
    (pc = "makedirs" /\ enc > 1) => tracks = CleanParse

\* C8: in a pass, a track line gets the metadata of the last #EXTINF: line
\* since the track line before it, or none when there is none, and the
\* pending metadata is cleared by the track line that takes it.
C8_PendingMetadata ==
    [][(pc = "read" /\ pos' = pos + 1 /\ Classify(playlist[pos']) = "track")
        => /\ Len(tracks') = Len(tracks) + 1
           /\ tracks'[Len(tracks')].info = PendingFor(pos')
           /\ current_extinf' = None]_vars

\* C9: the track list of a successful parse has one entry per track line of
\* the file, in file order, lines being classified with the precedence
\* skip, metadata, track, other.
C9_OneEntryPerTrackLine ==
    pc = "makedirs"
        => /\ Len(tracks) = Cardinality(TrackLines)
           /\ [i \in 1..Len(tracks) |-> tracks[i].encoded_filename]
                  = TrackLineNames(Len(playlist))

-----------------------------------------------------------------------------
(* The copier's claims *)

Copied(outs) == {k \in 1..Len(outs) : outs[k].outcome = "ok"}

Failed(outs) == {k \in 1..Len(outs) : outs[k].outcome # "ok"}

\* C2: the tracks are visited once each in list order, each with one
\* outcome: the copied ones and the failure entries add up to the tracks
\* visited (to all tracks, at the end), and the failure list names the failed
\* tracks in list order, each once.
C2_OneOutcomePerTrack ==
    /\ pc \in {"copy", "done"} =>
          /\ Len(outcomes) = index - 1
          /\ \A k \in 1..Len(outcomes) : outcomes[k].index = k
          /\ Cardinality(Copied(outcomes)) + Len(failed_files) = Len(outcomes)
          /\ \E at \in [1..Len(failed_files) -> Failed(outcomes)] :
                /\ \A m, n \in 1..Len(failed_files) : m < n => at[m] < at[n]
                /\ \A m \in 1..Len(failed_files) :
                      failed_files[m] = <<tracks[at[m]].encoded_filename,
                                          outcomes[at[m]].outcome>>
    /\ pc = "done" => Len(outcomes) = Len(tracks)

C2_Witness ==
    /\ pc = "done"
    /\ Len(tracks) >= 2
    /\ Copied(outcomes) # {}
    /\ Len(failed_files) >= 1
    /\ outcomes[1].outcome # "ok"

\* C3: a track whose source is not there is recorded as not found, one whose
\* copy raises is recorded with the error text, a source that is there and
\* copies cleanly is copied; in each case the loop goes on to the next track,
\* and the run ends with exit code 0.
C3_FailureNeverStopsLoop ==
    /\ [][(pc = "copy" /\ index <= Len(tracks)) =>
            LET name == tracks[index].encoded_filename
                src == SourceDir \o "/" \o name
                last == failed_files'[Len(failed_files')]
            IN  /\ pc' = "copy"
                /\ index' = index + 1
                /\ src \notin DOMAIN fs =>
                      /\ Len(failed_files') = Len(failed_files) + 1
                      /\ last = <<name, "File not found">>
                      /\ fs' = fs
                /\ src \in DOMAIN fs =>
                      \/ /\ failed_files' = failed_files
                         /\ outcomes'[index].dest \in DOMAIN fs'
                         /\ fs'[outcomes'[index].dest] = fs[src]
                      \/ /\ Len(failed_files') = Len(failed_files) + 1
                         /\ last[1] = name
                         /\ last[2] \notin {"ok", "File not found"}
                         /\ fs' = fs]_vars
    /\ [](pc = "copy" /\ index > Len(tracks) => Len(outcomes) = Len(tracks))
    /\ [](pc = "done" => exit = 0 /\ Len(outcomes) = Len(tracks))

C3_Witness ==
    /\ pc = "done"
    /\ exit = 0
    /\ Len(outcomes) >= 2
    /\ outcomes[1].outcome \notin {"ok", "File not found"}
    /\ outcomes[2].outcome = "ok"

\* C4: when no encoding can read the playlist the process ends with a
\* non-zero exit, copy_mp3_files is not reached and nothing is written; when
\* the destination directory can not be created the process ends with a
\* non-zero exit, no track is copied and no report is printed.
C4_FatalErrorsAbort ==
    /\ (argc = 3 /\ ~openable) =>
          /\ pc \in {"main", "open", "unreadable"}
          /\ exit # 0
          /\ tracks = <<>>
          /\ outcomes = <<>>
          /\ fs = fs_start
          /\ dirs = {SourceDir}
          /\ ~report.printed
    /\ pc = "unreadable" => exit = 1
    /\ (blocked /\ dest_dir \notin dirs) =>
          /\ pc \in {"main", "open", "read", "makedirs", "makedirs failed"}
          /\ exit # 0
          /\ outcomes = <<>>
          /\ fs = fs_start
          /\ ~report.printed
    /\ pc = "makedirs failed" => exit = 1 /\ blocked /\ dest_dir \notin dirs

C4_Witness ==
    /\ pc = "makedirs failed"
    /\ Len(tracks) >= 2
    /\ \A k \in 1..Len(tracks) : SourceDir \o "/" \o tracks[k].encoded_filename \in DOMAIN fs

\* The prefix of the first nine positions, written out.
PrefixOf(k) == "00" \o Char("123456789", k)

\* C5: the track at position i is copied to "<prefix> - <title><extension
\* of the decoded filename>" when it has metadata with a non-empty title and
\* to "<prefix> - <decoded filename>" otherwise, from the source path built
\* of the raw reference; "#EXTINF:180,My Song" then "track%201.mp3" gives
\* "001 - My Song.mp3".  (The extension of a decoded track name is its last
\* four characters.)
C5_DestinationName ==
    /\ \A k \in 1..Len(outcomes) :
          LET t == tracks[k]
              d == t.decoded_filename
              name == IF ~t.info.isNone /\ t.info.title # ""
                      THEN PrefixOf(k) \o " - " \o t.info.title
                               \o SubSeq(d, Len(d) - 3, Len(d))
                      ELSE PrefixOf(k) \o " - " \o d
          IN  /\ outcomes[k].dest = dest_dir \o "/" \o name
              /\ outcomes[k].source = SourceDir \o "/" \o t.encoded_filename
    /\ (playlist = <<"#EXTINF:180,My Song", "track%201.mp3">> /\ outcomes # <<>>) =>
          /\ tracks[1].decoded_filename = "track 1.mp3"
          /\ tracks[1].info.title = "My Song"
          /\ tracks[1].info.duration = "180"
          /\ outcomes[1].dest = dest_dir \o "/" \o "001 - My Song.mp3"

C5_Witness ==
    /\ pc = "done"
    /\ playlist = <<"#EXTINF:180,My Song", "track%201.mp3">>
    /\ dest_dir = OtherDir
    /\ "/out/001 - My Song.mp3" \in DOMAIN fs

\* C6: at the end of a run every file a track reference resolves to in the
\* source directory has the content it had at the start, whatever the
\* destination directory is.
C6_SourcesUntouched ==
    pc = "done" =>
        \A k \in 1..Len(tracks) :
            LET src == SourceDir \o "/" \o tracks[k].encoded_filename
            IN  src \in DOMAIN fs_start => src \in DOMAIN fs /\ fs[src] = fs_start[src]

\* C7: a second run with the same arguments reports the failure list of the
\* first and leaves the same files with the same contents.
C7_SecondRunSame ==
    (pc = "done" /\ run = 2) =>
        /\ failed_files = first.failed_files
        /\ fs = first.fs

\* Positions below and above 999, among them pairs that differ in their
\* leading or trailing digits only.
Positions == {1, 10, 100, 999, 1000, 1001}

\* C10: no two tracks of a run get the same destination filename, also at
\* positions above 999; and with a destination directory that is not the
\* source directory, a file copied in the run still has, later in the run,
\* the content that was copied.
C10_NamesDistinct ==
    /\ \A i, j \in 1..Len(outcomes) : i # j => outcomes[i].dest # outcomes[j].dest
    /\ pc = "makedirs" =>
          \A i, j \in Positions : \A t, u \in {tracks[m] : m \in 1..Len(tracks)} :
              i < j => NewFilename(i, t) # NewFilename(j, u)
    /\ dest_dir # SourceDir =>
          \A k \in Copied(outcomes) :
              /\ outcomes[k].dest \in DOMAIN fs
              /\ fs[outcomes[k].dest] = fs_start[outcomes[k].source]

C10_Witness ==
    /\ pc = "done"
    /\ dest_dir # SourceDir
    /\ Len(outcomes) >= 2
    /\ tracks[1] = tracks[2]
    /\ outcomes[1].outcome = "ok"
    /\ outcomes[2].outcome = "ok"

====
